---------------------------- MODULE Spec2Model ----------------------------
(***************************************************************************)
(* Model of the osc_builder package (4dhydro open science catalog          *)
(* builder): the CSV validation pass (origcsv.validate_csvs), the          *)
(* segmentation grouper (util.get_product_segmentation), the catalog       *)
(* builder (build.convert_csvs), the cross-linker (build.link_collections  *)
(* as driven by build.build_dist) and the metrics aggregator               *)
(* (metrics.caclulate_metrics).                                            *)
(*                                                                         *)
(* Text values (names, titles, CSV cells) are sequences of one-character   *)
(* strings, so that strip, split and slugify are computed character by     *)
(* character.  An absent value (Python None) is the empty sequence; a      *)
(* date-time is <<yyyymm>>, an absent one <<>>.                            *)
(***************************************************************************)
EXTENDS Integers, Sequences, FiniteSets, TLC

VARIABLES
    csvs,       \* validate_csvs: the six input tables
    vpc,        \* validate_csvs: "start" | "done"
    issues,     \* validate_csvs: the returned list of issues
    verr,       \* validate_csvs: "" or the exception raised
    segIn,      \* get_product_segmentation: the product records passed
    spc,        \* get_product_segmentation: "start" | "done"
    segOut,     \* get_product_segmentation: the returned list
    serr,       \* get_product_segmentation: "" or the exception raised
    inp,        \* convert_csvs: the records loaded from the CSV files
    pc,         \* the position of the convert / build pipeline
    tree,       \* the catalog tree: the containers, indexed by object
    err,        \* "" or the exception convert_csvs or build_dist raised
    linkRuns,   \* the number of completed runs of link_collections
    linkMode,   \* how the last link_collections call got its arguments
    metrics,    \* the document caclulate_metrics returned
    stored,     \* set_update_timestamps: the stored catalog files
    tpc,        \* set_update_timestamps: "start" | "done"
    lookups,    \* set_update_timestamps: the paths whose mtime was asked
    tret        \* set_update_timestamps: the value returned

vars == <<csvs, vpc, issues, verr, segIn, spc, segOut, serr,
          inp, pc, tree, err, linkRuns, linkMode, metrics,
          stored, tpc, lookups, tret>>

validateVars == <<csvs, vpc, issues, verr>>
segVars == <<segIn, spc, segOut, serr>>
buildVars == <<inp, pc, tree, err, linkRuns, linkMode, metrics>>
tsVars == <<stored, tpc, lookups, tret>>

\* set_update_timestamps has not been called.
TsIdle == stored = <<>> /\ tpc = "idle" /\ lookups = {} /\ tret = <<>>

---------------------------------------------------------------------------
(* Text helpers.                                                           *)

\* The characters of the model's texts, in ASCII order.
AsciiChars ==
    <<" ", ",", "-", "1", "2", ";",
      "A", "B", "C", "D", "E", "F", "G", "H", "I", "J", "K", "L", "M",
      "N", "O", "P", "Q", "R", "S", "T", "U", "V", "W", "X", "Y", "Z",
      "a", "b", "c", "d", "e", "f", "g", "h", "i", "j", "k", "l", "m",
      "n", "o", "p", "q", "r", "s", "t", "u", "v", "w", "x", "y", "z">>

Ord(c) == CHOOSE i \in 1..Len(AsciiChars) : AsciiChars[i] = c

IsUpper(c) == Ord(c) >= Ord("A") /\ Ord(c) <= Ord("Z")
IsLower(c) == Ord(c) >= Ord("a") /\ Ord(c) <= Ord("z")
IsDigit(c) == c \in {"1", "2"}
IsAlnum(c) == IsUpper(c) \/ IsLower(c) \/ IsDigit(c)

\* str.lower() of one character.
LowerChar(c) == IF IsUpper(c) THEN AsciiChars[Ord(c) - Ord("A") + Ord("a")] ELSE c

\* Python's < on str: lexicographic by code point, a proper prefix first.
RECURSIVE StrLess(_, _)
StrLess(a, b) ==
    IF b = <<>> THEN FALSE
    ELSE IF a = <<>> THEN TRUE
    ELSE IF Head(a) = Head(b) THEN StrLess(Tail(a), Tail(b))
    ELSE Ord(Head(a)) < Ord(Head(b))

RECURSIVE LStrip(_)
LStrip(s) ==
    IF s # <<>> /\ Head(s) = " " THEN LStrip(Tail(s)) ELSE s

RECURSIVE RStrip(_)
RStrip(s) ==
    IF s # <<>> /\ s[Len(s)] = " " THEN RStrip(SubSeq(s, 1, Len(s) - 1)) ELSE s

\* str.strip()
Strip(s) == RStrip(LStrip(s))

\* str.split(delimiter): the pieces between the delimiters, empty ones kept.
RECURSIVE SplitAcc(_, _, _, _)
SplitAcc(s, d, cur, acc) ==
    IF s = <<>> THEN Append(acc, cur)
    ELSE IF Head(s) = d THEN SplitAcc(Tail(s), d, <<>>, Append(acc, cur))
    ELSE SplitAcc(Tail(s), d, Append(cur, Head(s)), acc)

Split(s, d) == SplitAcc(s, d, <<>>, <<>>)

RECURSIVE StripNonEmpty(_)
StripNonEmpty(parts) ==
    IF parts = <<>> THEN <<>>
    ELSE LET stripped == Strip(Head(parts))
         IN  IF stripped # <<>> THEN <<stripped>> \o StripNonEmpty(Tail(parts))
             ELSE StripNonEmpty(Tail(parts))

\* origcsv.parse_list: split, strip every piece, drop the empty ones.
parse_list(value, delimiter) == StripNonEmpty(Split(value, delimiter))

\* slugify(): lower case, every run of other characters becomes one "-",
\* no "-" at either end.
RECURSIVE SlugAcc(_, _, _)
SlugAcc(s, acc, pendingSep) ==
    IF s = <<>> THEN acc
    ELSE IF IsAlnum(Head(s))
         THEN SlugAcc(Tail(s),
                      (IF pendingSep /\ acc # <<>> THEN Append(acc, "-") ELSE acc)
                          \o <<LowerChar(Head(s))>>,
                      FALSE)
         ELSE SlugAcc(Tail(s), acc, TRUE)

slugify(s) == SlugAcc(s, <<>>, FALSE)

\* The number of entries of sequence s equal to x.
RECURSIVE Count(_, _)
Count(s, x) ==
    IF s = <<>> THEN 0
    ELSE (IF Head(s) = x THEN 1 ELSE 0) + Count(Tail(s), x)

Elems(s) == {s[i] : i \in 1..Len(s)}

\* list(dict.fromkeys(s)): the distinct entries in first-seen order.
RECURSIVE DedupAcc(_, _)
DedupAcc(s, acc) ==
    IF s = <<>> THEN acc
    ELSE DedupAcc(Tail(s),
                  IF Head(s) \in Elems(acc) THEN acc ELSE Append(acc, Head(s)))

Dedup(s) == DedupAcc(s, <<>>)

None == <<>>


---------------------------------------------------------------------------
(* Texts used by the inputs.                                               *)

Water == <<"W", "a", "t", "e", "r">>
Snow == <<"S", "n", "o", "w">>
Ice == <<"I", "c", "e">>
SoilMoisture == <<"S", "o", "i", "l", " ", "M">>
Swe == <<"s", "w", "e">>
SentinelOne == <<"S", "-", "1">>
Smos == <<"s", "m", "o", "s">>
ProjA == <<"P", "r", "j", " ", "A">>
ProjB == <<"p", "r", "j", "b">>
ProjMissing == <<"Z", "z">>
CollX == <<"X">>
CollY == <<"Y">>
Semi == <<";">>

---------------------------------------------------------------------------
(* origcsv.validate_csvs                                                   *)

\* origcsv.get_metadata_column: the expected number of header columns.
MetadataColumns ==
    [missions |-> 3, products |-> 26, projects |-> 10, themes |-> 4,
     variables |-> 4, benchmarks |-> 26]

\* The files in the order validate_csvs checks their headers.
HeaderCheckOrder ==
    <<"products", "projects", "variables", "themes", "missions", "benchmarks">>

\* origcsv.get_themes: the non-empty cells among Theme1..Theme3.
get_themes(obj) ==
    SelectSeq(<<obj.Theme1, obj.Theme2, obj.Theme3>>, LAMBDA t : t # <<>>)

\* A dict built by {key(line).strip(): line for line in DictReader}: a
\* sequence of <<key, line>> in first-insertion order, the last line of a
\* key being the one kept.
RECURSIVE DictPut(_, _, _)
DictPut(d, k, v) ==
    IF d = <<>> THEN << <<k, v>> >>
    ELSE IF Head(d)[1] = k THEN << <<k, v>> >> \o Tail(d)
    ELSE <<Head(d)>> \o DictPut(Tail(d), k, v)

RECURSIVE DictFromRowsAcc(_, _)
DictFromRowsAcc(rows, d) ==
    IF rows = <<>> THEN d
    ELSE DictFromRowsAcc(Tail(rows), DictPut(d, Strip(Head(rows).name), Head(rows)))

DictFromRows(rows) == DictFromRowsAcc(rows, <<>>)

DictKeys(d) == {d[i][1] : i \in 1..Len(d)}

Issue(kind, element, name, ref) ==
    [kind |-> kind, element |-> element, name |-> name, ref |-> ref]

\* The header checks: one issue per file whose column count is off.
RECURSIVE HeaderIssues(_, _)
HeaderIssues(files, cols) ==
    IF files = <<>> THEN <<>>
    ELSE (IF cols[Head(files)] # MetadataColumns[Head(files)]
          THEN <<Issue("columns", Head(files), <<>>, <<>>)>>
          ELSE <<>>)
         \o HeaderIssues(Tail(files), cols)

RECURSIVE MissingRefIssues(_, _, _, _, _)
MissingRefIssues(refs, known, kind, element, name) ==
    IF refs = <<>> THEN <<>>
    ELSE (IF Head(refs) \notin known
          THEN <<Issue(kind, element, name, Head(refs))>>
          ELSE <<>>)
         \o MissingRefIssues(Tail(refs), known, kind, element, name)

\* The loop over VARIABLES.items() (every variable is visited).
RECURSIVE VariableIssues(_, _)
VariableIssues(d, THEMES) ==
    IF d = <<>> THEN <<>>
    ELSE MissingRefIssues(parse_list(Head(d)[2].themes, ";"), THEMES,
                          "theme", "Variable", Head(d)[1])
         \o VariableIssues(Tail(d), THEMES)

\* The body of the loop of _validate_products for one item.
ProductIssues(name, product, element, T) ==
    (IF product.Project \notin T.PROJECTS
     THEN <<Issue("project", element, name, product.Project)>> ELSE <<>>)
    \o (IF product.Collection = <<>>
        THEN <<Issue("collection", "Product", name, <<>>)>> ELSE <<>>)
    \o MissingRefIssues(get_themes(product), T.THEMES, "theme", element, name)
    \o MissingRefIssues(parse_list(product.Variables, ";"), T.VARS,
                        "variable", element, name)
    \o MissingRefIssues(parse_list(product.EO_Missions, ";"), T.MISSIONS,
                        "mission", element, name)

\* _validate_products: `return _issues` is inside the for loop, so the
\* function returns after the first item; with no item the loop body never
\* runs and the function returns None.
validate_products(product_interface, element, T) ==
    IF product_interface = <<>>
    THEN [isNone |-> TRUE, list |-> <<>>]
    ELSE [isNone |-> FALSE,
          list |-> ProductIssues(Head(product_interface)[1],
                                 Head(product_interface)[2], element, T)]

\* validate_csvs as a whole: the issue list it returns, or the TypeError of
\* `issues + None`.
validate_csvs(f) ==
    LET T == [THEMES |-> {Strip(f.themes[i]) : i \in 1..Len(f.themes)},
              VARS |-> DictKeys(DictFromRows(f.variables)),
              MISSIONS |-> {Strip(f.missions[i]) : i \in 1..Len(f.missions)},
              PROJECTS |-> {Strip(f.projects[i]) : i \in 1..Len(f.projects)}]
        PRODUCTS == DictFromRows(f.products)
        BENCHMARKS == DictFromRows(f.benchmarks)
        head == HeaderIssues(HeaderCheckOrder, f.cols)
                \o VariableIssues(DictFromRows(f.variables), T.THEMES)
        p == validate_products(PRODUCTS, "Product", T)
        b == validate_products(BENCHMARKS, "Benchmark", T)
    IN  IF p.isNone \/ b.isNone
        THEN [err |-> "TypeError", issues |-> <<>>]
        ELSE [err |-> "", issues |-> head \o p.list \o b.list]

(* The inputs of validate_csvs. *)

MaxRows == 2

Row(name, project, collection, t1, t2, vs, ms) ==
    [name |-> name, Project |-> project, Collection |-> collection,
     Theme1 |-> t1, Theme2 |-> t2, Theme3 |-> <<>>,
     Variables |-> vs, EO_Missions |-> ms]

ProductRowPool ==
    { Row(<<"p", "a">>, ProjA, CollX, Water, <<>>, SoilMoisture, SentinelOne),
      Row(<<"p", "b">>, ProjA, CollX, Ice, <<>>, SoilMoisture, <<>>),
      Row(<<"p", "c", " ">>, ProjA, <<>>, Water, Snow,
          SoilMoisture \o Semi \o <<" ">> \o Swe, SentinelOne),
      Row(<<"p", "d">>, ProjMissing, CollY, <<>>, <<>>, <<>>, Smos) }

BenchmarkRowPool ==
    { Row(<<"b", "a">>, ProjA, CollX, Water, <<>>, SoilMoisture, <<>>),
      Row(<<"b", "b">>, ProjA, CollY, Ice, <<>>, Swe, <<>>) }

VariableRow(name, themes) == [name |-> name, themes |-> themes]

SeqsUpTo(S, n) == UNION {[1..k -> S] : k \in 0..n}

ColumnChoices ==
    { MetadataColumns, [MetadataColumns EXCEPT !.products = 27] }

CsvInputs ==
    [themes : {<<Water>>, <<Water, Snow>>},
     variables : { <<VariableRow(SoilMoisture, Water), VariableRow(Swe, Snow)>>,
                   <<VariableRow(SoilMoisture, Water \o Semi \o Snow)>> },
     missions : {<<SentinelOne>>},
     projects : {<<ProjA>>},
     products : SeqsUpTo(ProductRowPool, MaxRows),
     benchmarks : SeqsUpTo(BenchmarkRowPool, MaxRows),
     cols : ColumnChoices]

NoMetrics == [status |-> "none"]

BuildIdle ==
    /\ inp = <<>> /\ pc = "idle" /\ tree = <<>> /\ err = ""
    /\ linkRuns = 0 /\ linkMode = "" /\ metrics = NoMetrics

SegIdle == segIn = <<>> /\ spc = "idle" /\ segOut = <<>> /\ serr = ""

InitValidate ==
    /\ csvs \in CsvInputs
    /\ vpc = "start"
    /\ issues = <<>>
    /\ verr = ""
    /\ SegIdle
    /\ BuildIdle
    /\ TsIdle

ValidateCsvs ==
    /\ vpc = "start"
    /\ LET r == validate_csvs(csvs)
       IN  /\ issues' = r.issues
           /\ verr' = r.err
    /\ vpc' = "done"
    /\ UNCHANGED <<csvs, segVars, buildVars, tsVars>>

NextValidate == ValidateCsvs

SpecValidate == InitValidate /\ [][NextValidate]_vars

---------------------------------------------------------------------------
(* util.get_product_segmentation                                           *)

\* A Product or Benchmark record as load_orig_products builds it.
Product(id, project, collection, themes, variables, eo_missions, start, end, region) ==
    [id |-> id, title |-> id, project |-> project, collection |-> collection,
     themes |-> themes, variables |-> variables, eo_missions |-> eo_missions,
     start |-> start, end |-> end, region |-> region,
     geometry |-> <<"g">> \o id, released |-> <<"r">> \o id]

\* The loop `if len(xs) != 0: acc.append(*xs)` over the members' lists:
\* list.append takes exactly one argument, so a list of two or more entries
\* is a TypeError.
RECURSIVE StarAppendAll(_, _)
StarAppendAll(lists, acc) ==
    IF lists = <<>> THEN [err |-> "", list |-> acc]
    ELSE IF Len(Head(lists)) = 0 THEN StarAppendAll(Tail(lists), acc)
    ELSE IF Len(Head(lists)) = 1
         THEN StarAppendAll(Tail(lists), Append(acc, Head(lists)[1]))
    ELSE [err |-> "TypeError", list |-> acc]

\* sorted(xs, key=...) compares None with a datetime (or with None) as soon
\* as two entries are compared: a TypeError.
SortRaises(keys) ==
    Len(keys) >= 2 /\ \E i \in 1..Len(keys) : keys[i] = None

\* Insertion of <<key, x>> into a sorted sequence, after the entries whose
\* key is not greater (sorted() is stable).
RECURSIVE InsertByKey(_, _)
InsertByKey(sorted, kx) ==
    IF sorted = <<>> THEN <<kx>>
    ELSE IF kx[1] # None /\ Head(sorted)[1] # None /\ kx[1][1] < Head(sorted)[1][1]
         THEN <<kx>> \o sorted
    ELSE <<Head(sorted)>> \o InsertByKey(Tail(sorted), kx)

RECURSIVE SortByKeyAcc(_, _)
SortByKeyAcc(pairs, sorted) ==
    IF pairs = <<>> THEN sorted
    ELSE SortByKeyAcc(Tail(pairs), InsertByKey(sorted, Head(pairs)))

\* sorted(list_related_product, key=lambda x: x.start)
SortedByStart(related) ==
    LET s == SortByKeyAcc([i \in 1..Len(related) |-> <<related[i].start, related[i]>>], <<>>)
    IN  [i \in 1..Len(s) |-> s[i][2]]

Reverse(s) == [i \in 1..Len(s) |-> s[Len(s) + 1 - i]]

\* Mutant of SortedByEndReversed: the reversal is forgotten.
MutSortedByEndNotReversed(related) ==
    LET s == SortByKeyAcc([i \in 1..Len(related) |-> <<related[i].end, related[i]>>], <<>>)
    IN  [i \in 1..Len(s) |-> s[i][2]]

\* list(reversed(sorted(list_related_product, key=lambda x: x.end)))
SortedByEndReversed(related) ==
    LET s == SortByKeyAcc([i \in 1..Len(related) |-> <<related[i].end, related[i]>>], <<>>)
    IN  Reverse([i \in 1..Len(s) |-> s[i][2]])

\* Mutant of JoinCommaSpace: the parts are joined with a comma alone.
RECURSIVE MutJoinComma(_)
MutJoinComma(parts) ==
    IF parts = <<>> THEN <<>>
    ELSE IF Len(parts) = 1 THEN parts[1]
    ELSE parts[1] \o <<",">> \o MutJoinComma(Tail(parts))

\* ", ".join(regions)
RECURSIVE JoinCommaSpace(_)
JoinCommaSpace(parts) ==
    IF parts = <<>> THEN <<>>
    ELSE IF Len(parts) = 1 THEN parts[1]
    ELSE parts[1] \o <<",", " ">> \o JoinCommaSpace(Tail(parts))

\* Mutant of ListNameProductSegmentation: the `if product.collection` filter
\* is dropped.
MutListNameUnfiltered(products) ==
    Dedup([i \in 1..Len(products) |-> products[i].collection])

\* Mutant of ListNameProductSegmentation: the names are kept in the order
\* of their last appearance.
MutListNameLastSeen(products) ==
    Reverse(Dedup(Reverse(
        [i \in 1..Len(SelectSeq(products, LAMBDA p : p.collection # None))
            |-> SelectSeq(products, LAMBDA p : p.collection # None)[i].collection])))

\* list(dict.fromkeys([product.collection for product in products
\*                     if product.collection]))
ListNameProductSegmentation(products) ==
    Dedup([i \in 1..Len(SelectSeq(products, LAMBDA p : p.collection # None))
              |-> SelectSeq(products, LAMBDA p : p.collection # None)[i].collection])

\* list(filter(lambda x: x.collection == name, products))
ListRelatedProduct(products, name) ==
    SelectSeq(products, LAMBDA x : x.collection = name)

\* The body of the loop over the collection names, for one name.
SegmentationItem(products, name) ==
    LET related == ListRelatedProduct(products, name)
        nonEmptyRegions == SelectSeq(related, LAMBDA p : p.region # None)
        regions == Dedup([i \in 1..Len(nonEmptyRegions) |-> nonEmptyRegions[i].region])
        vs == StarAppendAll([i \in 1..Len(related) |-> related[i].variables], <<>>)
        ms == StarAppendAll([i \in 1..Len(related) |-> related[i].eo_missions], <<>>)
        ts == StarAppendAll([i \in 1..Len(related) |-> related[i].themes], <<>>)
    IN  IF vs.err # "" \/ ms.err # "" \/ ts.err # ""
            \/ SortRaises([i \in 1..Len(related) |-> related[i].start])
            \/ SortRaises([i \in 1..Len(related) |-> related[i].end])
        THEN [err |-> "TypeError", item |-> <<>>]
        ELSE LET first == SortedByStart(related)
                 end == SortedByEndReversed(related)
             IN  [err |-> "",
                  item |-> [title |-> name,
                            project |-> end[1].project,
                            themes |-> Dedup(ts.list),
                            start |-> first[1].start,
                            geometry |-> first[1].geometry,
                            end |-> end[1].end,
                            released |-> first[1].released,
                            region |-> JoinCommaSpace(regions),
                            variables |-> Dedup(vs.list),
                            eo_missions |-> Dedup(ms.list)]]

RECURSIVE SegmentationLoop(_, _, _)
SegmentationLoop(products, names, acc) ==
    IF names = <<>> THEN [err |-> "", list |-> acc]
    ELSE LET r == SegmentationItem(products, Head(names))
         IN  IF r.err # "" THEN [err |-> r.err, list |-> <<>>]
             ELSE SegmentationLoop(products, Tail(names), Append(acc, r.item))

\* get_product_segmentation: the list returned, or the exception raised.
get_product_segmentation(products) ==
    SegmentationLoop(products, ListNameProductSegmentation(products), <<>>)

(* The inputs of get_product_segmentation. *)

MaxSegProducts == 3

SegProductPool ==
    { Product(<<"a">>, ProjA, CollX, <<Water>>, <<SoilMoisture>>, <<SentinelOne>>,
              <<201001>>, <<201212>>, <<"A">>),
      Product(<<"b">>, ProjB, CollX, <<Snow>>, <<Swe>>, <<>>,
              <<201501>>, <<201812>>, <<"B">>),
      Product(<<"c">>, ProjA, CollX, <<Water>>, <<>>, <<Smos>>,
              <<201101>>, <<201312>>, <<"A">>),
      Product(<<"d">>, ProjA, CollY, <<>>, <<>>, <<>>, None, None, None),
      Product(<<"e">>, ProjB, None, <<Water>>, <<Swe>>, <<>>,
              <<201001>>, <<201012>>, <<"B">>),
      Product(<<"f">>, ProjB, CollY, <<Snow>>, <<SoilMoisture, Swe>>, <<>>,
              <<201201>>, <<201812>>, None),
      Product(<<"g">>, ProjB, CollY, <<Water, Snow>>, <<>>, <<>>,
              <<201001>>, <<201812>>, <<"A">>),
      Product(<<"h">>, ProjA, CollY, <<Snow>>, <<>>, <<>>,
              <<201301>>, <<201412>>, <<"B">>),
      Product(<<"i">>, ProjA, CollX, <<Snow>>, <<>>, <<>>,
              <<201601>>, <<201812>>, None) }

ValidateIdle == csvs = <<>> /\ vpc = "idle" /\ issues = <<>> /\ verr = ""

InitSeg ==
    /\ segIn \in SeqsUpTo(SegProductPool, MaxSegProducts)
    /\ spc = "start"
    /\ segOut = <<>>
    /\ serr = ""
    /\ ValidateIdle
    /\ BuildIdle
    /\ TsIdle

GetProductSegmentation ==
    /\ spc = "start"
    /\ LET r == get_product_segmentation(segIn)
       IN  /\ segOut' = r.list
           /\ serr' = r.err
    /\ spc' = "done"
    /\ UNCHANGED <<segIn, validateVars, buildVars, tsVars>>

NextSeg == GetProductSegmentation

SpecSeg == InitSeg /\ [][NextSeg]_vars

---------------------------------------------------------------------------
(* The catalog tree.  A container is a record of the tree; the tree is the   *)
(* sequence of all containers and a container is referred to by its index,   *)
(* which stands for the identity of the Python object.  A container's child  *)
(* links and its "related" links are sequences of such indices, in the order *)
(* in which add_child and add_link appended them.                            *)

Node(kind, id, title, project, themes, variables, missions, start, end) ==
    [kind |-> kind, id |-> id, title |-> title, project |-> project,
     themes |-> themes, variables |-> variables, missions |-> missions,
     start |-> start, end |-> end,
     children |-> <<>>, related |-> <<>>, parent |-> 0, keywords |-> FALSE]

\* The records the loaders build.
Theme(name) == [name |-> name]
Variable(name, themes) == [name |-> name, themes |-> themes]
EOMission(name) == [name |-> name]
Project(short_name) ==
    [id |-> slugify(short_name), title |-> short_name, themes |-> <<>>]
Process(name, project) == [name |-> name, project |-> project]

\* A project whose record carries a theme list, the list that
\* get_theme_names reads of a project collection (build.py line 378,
\* metrics.py line 289; spec 4.3).
ProjectWithThemes(short_name, themes) ==
    [Project(short_name) EXCEPT !.themes = themes]

\* stac.get_theme_id, get_variable_id, get_eo_mission_id: the slug of the
\* name, the key of the lookups of link_collections (spec 4.3).
get_theme_id(name) == slugify(name)
get_variable_id(name) == slugify(name)
get_eo_mission_id(name) == slugify(name)

\* stac.get_theme_names: the theme list kept in the container's extra fields.
get_theme_names(node) == node.themes

\* stac.catalog_from_* and collection_from_*: the container of a record.
catalog_from_theme(theme) ==
    Node("theme", get_theme_id(theme.name), theme.name, None, <<>>, <<>>, <<>>, None, None)
catalog_from_variable(variable) ==
    Node("variable", get_variable_id(variable.name), variable.name, None,
         variable.themes, <<>>, <<>>, None, None)
\* An eo-mission is identified by its name as it stands (spec 3), a theme
\* and a variable by the slug of theirs.
catalog_from_eo_mission(eo_mission) ==
    Node("eo-mission", eo_mission.name, eo_mission.name, None,
         <<>>, <<>>, <<>>, None, None)
collection_from_project(project) ==
    Node("project", project.id, project.title, None, project.themes, <<>>, <<>>,
         None, None)
collection_from_processes(process) ==
    Node("process", slugify(process.project) \o <<"-">> \o slugify(process.name),
         process.name, process.project, <<>>, <<>>, <<>>, None, None)
collection_from_product(product) ==
    Node("product", product.id, product.title, product.project, product.themes,
         product.variables, product.eo_missions, product.start, product.end)
collection_from_segmentation_product(parent) ==
    Node("segmentation", parent.title, parent.title, parent.project, parent.themes,
         parent.variables, parent.eo_missions, parent.start, parent.end)

\* Mutant of AddLink: a link to a target already linked is not added again.
MutAddLinkOnce(t, owner, target) ==
    IF target \in Elems(t[owner].related) THEN t
    ELSE [t EXCEPT ![owner].related = Append(@, target)]

\* pystac add_link: the link is appended, with no test for an equal one.
AddLink(t, owner, target) ==
    [t EXCEPT ![owner].related = Append(@, target)]

\* pystac add_child(child, set_parent=True) for a container of the tree: a
\* child link to the same object is appended and the object's parent is set.
AddChild(t, parent, child) ==
    [t EXCEPT ![parent].children = Append(@, child), ![child].parent = parent]

\* add_child of a container just constructed.
AddNewChild(t, parent, node) ==
    AddChild(Append(t, node), parent, Len(t) + 1)

\* add_children
RECURSIVE AddNewChildren(_, _, _)
AddNewChildren(t, parent, nodes) ==
    IF nodes = <<>> THEN t
    ELSE AddNewChildren(AddNewChild(t, parent, Head(nodes)), parent, Tail(nodes))

\* sorted(..., key=lambda catalog: catalog.id): stable, by Python's str order.
RECURSIVE InsertById(_, _)
InsertById(sorted, node) ==
    IF sorted = <<>> THEN <<node>>
    ELSE IF StrLess(node.id, Head(sorted).id) THEN <<node>> \o sorted
    ELSE <<Head(sorted)>> \o InsertById(Tail(sorted), node)

RECURSIVE SortByIdAcc(_, _)
SortByIdAcc(nodes, sorted) ==
    IF nodes = <<>> THEN sorted
    ELSE SortByIdAcc(Tail(nodes), InsertById(sorted, Head(nodes)))

SortById(nodes) == SortByIdAcc(nodes, <<>>)

\* The root catalog is the first container constructed.
RootOid == 1

\* pystac get_child(id): the first child with this id, 0 when there is none.
get_child(t, parent, id) ==
    LET hits == SelectSeq(t[parent].children, LAMBDA c : t[c].id = id)
    IN  IF hits = <<>> THEN 0 ELSE hits[1]

\* The identifiers of the six first-level catalogs.
ProjectsId == <<"p", "r", "o", "j", "e", "c", "t", "s">>
ThemesId == <<"t", "h", "e", "m", "e", "s">>
VariablesId == <<"v", "a", "r", "i", "a", "b", "l", "e", "s">>
EoMissionsId == <<"e", "o", "-", "m", "i", "s", "s", "i", "o", "n", "s">>
ProductsId == <<"p", "r", "o", "d", "u", "c", "t", "s">>
ProcessesId == <<"p", "r", "o", "c", "e", "s", "s", "e", "s">>

Catalog(id) == Node("catalog", id, id, None, <<>>, <<>>, <<>>, None, None)

\* The children of a first-level catalog, as root.get_child(id).get_children()
\* enumerates them.
Branch(t, id) == t[get_child(t, RootOid, id)].children

---------------------------------------------------------------------------
(* build.convert_csvs                                                      *)

\* Mutant of FirstLevelOrder: `products` is attached before `eo-missions`.
MutFirstLevelOrderSwapped ==
    <<ProjectsId, ThemesId, VariablesId, ProductsId, EoMissionsId, ProcessesId>>

\* Lines 74-127: the root and the six first-level catalogs, added in the
\* order projects, themes, variables, eo-missions, products, processes.
FirstLevelOrder ==
    <<ProjectsId, ThemesId, VariablesId, EoMissionsId, ProductsId, ProcessesId>>

Skeleton ==
    AddNewChildren(<<Catalog(<<"o", "s", "c">>)>>, RootOid,
                   [i \in 1..Len(FirstLevelOrder) |-> Catalog(FirstLevelOrder[i])])

\* Lines 129-171: the add_children calls, each on the containers of the
\* records sorted by id; the projects are added a second time (lines 166-171),
\* from containers constructed anew.
Populated(t, in, segmentation_products) ==
    LET t1 == AddNewChildren(t, get_child(t, RootOid, ThemesId),
                  SortById([i \in 1..Len(in.themes) |-> catalog_from_theme(in.themes[i])]))
        t2 == AddNewChildren(t1, get_child(t, RootOid, VariablesId),
                  SortById([i \in 1..Len(in.variables) |-> catalog_from_variable(in.variables[i])]))
        t3 == AddNewChildren(t2, get_child(t, RootOid, EoMissionsId),
                  SortById([i \in 1..Len(in.eo_missions) |-> catalog_from_eo_mission(in.eo_missions[i])]))
        t4 == AddNewChildren(t3, get_child(t, RootOid, ProjectsId),
                  SortById([i \in 1..Len(in.projects) |-> collection_from_project(in.projects[i])]))
        t5 == AddNewChildren(t4, get_child(t, RootOid, ProcessesId),
                  SortById([i \in 1..Len(in.processes) |-> collection_from_processes(in.processes[i])]))
        t6 == AddNewChildren(t5, get_child(t, RootOid, ProductsId),
                  SortById([i \in 1..Len(segmentation_products) |->
                               collection_from_segmentation_product(segmentation_products[i])]))
        t7 == AddNewChildren(t6, get_child(t, RootOid, ProjectsId),
                  SortById([i \in 1..Len(in.projects) |-> collection_from_project(in.projects[i])]))
    IN  t7

\* Mutant of link_sub_product: every product goes under `catalog` itself.
MutLinkSubProductDirect(t, catalog, products_interface) ==
    AddNewChildren(t, catalog,
        [i \in 1..Len(products_interface) |->
            collection_from_product(products_interface[i])])

\* _link_sub_product: a product goes under the first child of `catalog`
\* whose title equals its collection, else under `catalog` itself.
RECURSIVE link_sub_product(_, _, _)
link_sub_product(t, catalog, products_interface) ==
    IF products_interface = <<>> THEN t
    ELSE LET line_product == Head(products_interface)
             parent == SelectSeq(t[catalog].children,
                                 LAMBDA x : t[x].title = line_product.collection)
             target == IF Len(parent) # 0 THEN parent[1] ELSE catalog
         IN  link_sub_product(AddNewChild(t, target, collection_from_product(line_product)),
                              catalog, Tail(products_interface))

---------------------------------------------------------------------------
(* build.link_collections and build.build_dist                             *)

\* {collection.id: collection for collection in ...}[key]: the last
\* container with this id; 0 stands for the KeyError of a missing key.
MapLookup(t, oids, key) ==
    LET hits == SelectSeq(oids, LAMBDA c : t[c].id = key)
    IN  IF hits = <<>> THEN 0 ELSE hits[Len(hits)]

\* Mutant of AttachProduct: a copy of the product is attached, not the product.
MutAttachProductCopy(t, container, product) ==
    [Append(t, [t[product] EXCEPT !.parent = container])
        EXCEPT ![container].children = Append(@, Len(t) + 1)]

\* container.add_child(product_collection, set_parent=True), lines 410, 423,
\* 436 and 449: the product itself becomes a child of the container too.
AttachProduct(t, container, product) ==
    AddChild(t, container, product)

\* The key under which a product's reference of one kind is looked up.
ReferenceId(kind, name) ==
    CASE kind = "theme" -> get_theme_id(name)
      [] kind = "variable" -> get_variable_id(name)
      [] kind = "eo-mission" -> get_eo_mission_id(name)

\* Mutant of LinkReferences: the loop ends after the first name.
MutLinkReferencesFirstOnly(st, product, names, kind, oids) ==
    IF st.err # "" \/ names = <<>> THEN st
    ELSE LET target == MapLookup(st.t, oids, ReferenceId(kind, Head(names)))
         IN  IF target = 0 THEN [st EXCEPT !.err = "KeyError"]
             ELSE [t |-> AttachProduct(AddLink(st.t, product, target), target, product),
                   err |-> ""]

\* One of the three loops of _links_all_products over the names of a
\* product: look the container up, add the related link, attach the product.
\* st is [t |-> the tree, err |-> "" or the exception raised].
RECURSIVE LinkReferences(_, _, _, _, _)
LinkReferences(st, product, names, kind, oids) ==
    IF st.err # "" \/ names = <<>> THEN st
    ELSE LET target == MapLookup(st.t, oids, ReferenceId(kind, Head(names)))
         IN  IF target = 0 THEN [st EXCEPT !.err = "KeyError"]
             ELSE LinkReferences(
                      [t |-> AttachProduct(AddLink(st.t, product, target), target, product),
                       err |-> ""],
                      product, Tail(names), kind, oids)

\* The body of the loop of _links_all_products for one product.
LinkProduct(st, product, maps) ==
    LET project == MapLookup(st.t, maps.projects, slugify(st.t[product].project))
    IN  IF project = 0 THEN [st EXCEPT !.err = "KeyError"]
        ELSE LET s1 == [t |-> AttachProduct(AddLink(st.t, product, project), project, product),
                        err |-> ""]
                 s2 == LinkReferences(s1, product, get_theme_names(st.t[product]),
                                      "theme", maps.themes)
                 s3 == LinkReferences(s2, product, st.t[product].variables,
                                      "variable", maps.variables)
             IN  LinkReferences(s3, product, st.t[product].missions,
                                "eo-mission", maps.eo_missions)

RECURSIVE links_all_products(_, _, _)
links_all_products(st, products, maps) ==
    IF st.err # "" \/ products = <<>> THEN st
    ELSE links_all_products(LinkProduct(st, Head(products), maps), Tail(products), maps)

\* Mutant of LinkProcesses: a process whose project is not found is passed
\* over.
RECURSIVE MutLinkProcessesSkip(_, _, _)
MutLinkProcessesSkip(st, processes, maps) ==
    IF st.err # "" \/ processes = <<>> THEN st
    ELSE LET project == MapLookup(st.t, maps.projects,
                                  slugify(st.t[Head(processes)].project))
         IN  IF project = 0 THEN MutLinkProcessesSkip(st, Tail(processes), maps)
             ELSE MutLinkProcessesSkip(
                      [t |-> AddLink(st.t, Head(processes), project), err |-> ""],
                      Tail(processes), maps)

\* Lines 382-394: process -> project.
RECURSIVE LinkProcesses(_, _, _)
LinkProcesses(st, processes, maps) ==
    IF st.err # "" \/ processes = <<>> THEN st
    ELSE LET project == MapLookup(st.t, maps.projects,
                                  slugify(st.t[Head(processes)].project))
         IN  IF project = 0 THEN [st EXCEPT !.err = "KeyError"]
             ELSE LinkProcesses([t |-> AddLink(st.t, Head(processes), project), err |-> ""],
                                Tail(processes), maps)

RECURSIVE AddLinks(_, _, _)
AddLinks(t, owner, targets) ==
    IF targets = <<>> THEN t
    ELSE AddLinks(AddLink(t, owner, Head(targets)), owner, Tail(targets))

\* Lines 368-380: project -> themes.  The themes are looked up by their
\* name as it stands; the list of links is built before any is added.
RECURSIVE LinkProjects(_, _, _)
LinkProjects(st, projects, maps) ==
    IF st.err # "" \/ projects = <<>> THEN st
    ELSE LET names == get_theme_names(st.t[Head(projects)])
             targets == [i \in 1..Len(names) |-> MapLookup(st.t, maps.themes, names[i])]
         IN  IF \E i \in 1..Len(targets) : targets[i] = 0
             THEN [st EXCEPT !.err = "KeyError"]
             ELSE LinkProjects([t |-> AddLinks(st.t, Head(projects), targets), err |-> ""],
                               Tail(projects), maps)

\* Lines 354-366: variable -> themes.  The theme names are asked of
\* `validate_catalog`, a function of the module and no container, so the
\* first iteration raises.
LinkVariables(st, variables, maps) ==
    IF st.err # "" \/ variables = <<>> THEN st
    ELSE [st EXCEPT !.err = "AttributeError"]

\* link_collections on the children of the six branches of t.  With
\* asList the arguments are lists; without, they are the generators that
\* get_children() returns, as build_dist passes them: the four dict
\* comprehensions of lines 341-352 then exhaust the theme, variable,
\* eo-mission and project generators, and the loops over the variables and
\* over the projects have nothing left to iterate.
link_collections(t, asList) ==
    LET maps == [themes |-> Branch(t, ThemesId),
                 variables |-> Branch(t, VariablesId),
                 eo_missions |-> Branch(t, EoMissionsId),
                 projects |-> Branch(t, ProjectsId)]
        s0 == [t |-> t, err |-> ""]
        s1 == LinkVariables(s0, IF asList THEN Branch(t, VariablesId) ELSE <<>>, maps)
        s2 == LinkProjects(s1, IF asList THEN Branch(t, ProjectsId) ELSE <<>>, maps)
        s3 == LinkProcesses(s2, Branch(t, ProcessesId), maps)
    IN  links_all_products(s3, Branch(t, ProductsId), maps)

RECURSIVE SetKeywords(_, _)
SetKeywords(t, oids) ==
    IF oids = <<>> THEN t
    ELSE SetKeywords([t EXCEPT ![Head(oids)].keywords = TRUE], Tail(oids))

\* build_dist lines 493-505: apply_keywords on the children of the six branches.
ApplyKeywords(t) ==
    SetKeywords(t, Branch(t, ProductsId) \o Branch(t, ProjectsId) \o Branch(t, ThemesId)
                   \o Branch(t, VariablesId) \o Branch(t, EoMissionsId)
                   \o Branch(t, ProcessesId))

MaxLinkRuns == 2

---------------------------------------------------------------------------
(* metrics.caclulate_metrics                                               *)

Year(d) == d[1] \div 100

\* Mutant of extract_collection_years: the year of the end is left out.
MutYearsWithoutLast(node) ==
    IF node.start # None /\ node.end # None
    THEN Year(node.start)..(Year(node.end) - 1)
    ELSE {}

\* extract_collection_years: the calendar years of the container's one
\* temporal interval [start, end], none when an end point is missing.
extract_collection_years(node) ==
    IF node.start # None /\ node.end # None
    THEN Year(node.start)..Year(node.end)
    ELSE {}

\* sorted(a set of years)
RECURSIVE SortedYears(_)
SortedYears(S) ==
    IF S = {} THEN <<>>
    ELSE LET m == CHOOSE x \in S : \A y \in S : x <= y
         IN  <<m>> \o SortedYears(S \ {m})

\* The accumulator of one theme, variable or eo-mission: an entry of
\* theme_infos, variable_infos or eo_mission_infos under its key.
Info(node) ==
    [key |-> node.id, name |-> node.title, themes |-> get_theme_names(node),
     num_projects |-> 0, num_products |-> 0, num_variables |-> 0, years |-> {}]

\* {c.id: {...} for c in children}: one entry per id, at the place of the
\* id's first container, holding the values of its last.
RECURSIVE InfosAcc(_, _, _)
InfosAcc(t, oids, acc) ==
    IF oids = <<>> THEN acc
    ELSE LET info == Info(t[Head(oids)])
             at == SelectSeq([i \in 1..Len(acc) |-> i], LAMBDA i : acc[i].key = info.key)
         IN  InfosAcc(t, Tail(oids),
                      IF at = <<>> THEN Append(acc, info) ELSE [acc EXCEPT ![at[1]] = info])

Infos(t, oids) == InfosAcc(t, oids, <<>>)

\* The place of a key in a dict of accumulators, 0 when it is missing.
IndexOfKey(infos, key) ==
    LET at == SelectSeq([i \in 1..Len(infos) |-> i], LAMBDA i : infos[i].key = key)
    IN  IF at = <<>> THEN 0 ELSE at[1]

\* Mutant of AddProduct: the counter is set, not incremented.
MutAddProductSet(infos, i, years) ==
    [infos EXCEPT ![i].num_products = 1, ![i].years = @ \cup years]

\* info["num_products"] += 1; info["years"] |= years
AddProduct(infos, i, years) ==
    [infos EXCEPT ![i].num_products = @ + 1, ![i].years = @ \cup years]

\* One of the three loops over a product's references (lines 301-315).
\* acc is [infos, err].  With strict the accumulator is subscripted by the
\* key (a missing key is a KeyError); without, it is asked with .get() and
\* a missing key is passed over.
RECURSIVE AccumulateRefs(_, _, _, _)
AccumulateRefs(acc, keys, years, strict) ==
    IF acc.err # "" \/ keys = <<>> THEN acc
    ELSE LET i == IndexOfKey(acc.infos, Head(keys))
         IN  IF i = 0
             THEN IF strict THEN [acc EXCEPT !.err = "KeyError"]
                  ELSE AccumulateRefs(acc, Tail(keys), years, strict)
             ELSE AccumulateRefs([acc EXCEPT !.infos = AddProduct(@, i, years)],
                                 Tail(keys), years, strict)

\* The key under which line 312 asks eo_mission_infos: the mission name of
\* the product as it stands.
MissionInfoKey(eo_mission_name) == eo_mission_name

\* The body of the loop over product_collections for one product.
\* st is [themes, variables, missions, years, err].
MetricsProduct(st, node) ==
    LET years == extract_collection_years(node)
        names == get_theme_names(node)
        th == AccumulateRefs([infos |-> st.themes, err |-> ""],
                             [i \in 1..Len(names) |-> get_theme_id(names[i])],
                             years, TRUE)
        va == AccumulateRefs([infos |-> st.variables, err |-> th.err],
                             [i \in 1..Len(node.variables) |-> get_variable_id(node.variables[i])],
                             years, TRUE)
        mi == AccumulateRefs([infos |-> st.missions, err |-> va.err],
                             [i \in 1..Len(node.missions) |-> MissionInfoKey(node.missions[i])],
                             years, FALSE)
    IN  [themes |-> th.infos, variables |-> va.infos, missions |-> mi.infos,
         years |-> st.years \cup years, err |-> mi.err]

RECURSIVE MetricsProducts(_, _, _)
MetricsProducts(st, t, oids) ==
    IF st.err # "" \/ oids = <<>> THEN st
    ELSE MetricsProducts(MetricsProduct(st, t[Head(oids)]), t, Tail(oids))

\* Lines 290-293 and 317-319: a counter of the theme of every name of the
\* list is incremented; a name with no theme is a KeyError.
RECURSIVE CountForThemes(_, _, _)
CountForThemes(acc, names, field) ==
    IF acc.err # "" \/ names = <<>> THEN acc
    ELSE LET i == IndexOfKey(acc.infos, get_theme_id(Head(names)))
         IN  IF i = 0 THEN [acc EXCEPT !.err = "KeyError"]
             ELSE CountForThemes(
                      [acc EXCEPT !.infos =
                          IF field = "num_projects"
                          THEN [@ EXCEPT ![i].num_projects = @ + 1]
                          ELSE [@ EXCEPT ![i].num_variables = @ + 1]],
                      Tail(names), field)

RECURSIVE CountForThemesOfAll(_, _, _)
CountForThemesOfAll(acc, nameLists, field) ==
    IF acc.err # "" \/ nameLists = <<>> THEN acc
    ELSE CountForThemesOfAll(CountForThemes(acc, Head(nameLists), field),
                             Tail(nameLists), field)

ThemeEntry(info) ==
    [key |-> info.key, name |-> info.name, years |-> SortedYears(info.years),
     numberOfProducts |-> info.num_products, numberOfProjects |-> info.num_projects,
     numberOfVariables |-> info.num_variables]

VariableEntry(info) ==
    [key |-> info.key, name |-> info.name, years |-> SortedYears(info.years),
     numberOfProducts |-> info.num_products]

MissionEntry(info) ==
    [key |-> info.key, name |-> info.name, years |-> SortedYears(info.years),
     numberOfProducts |-> info.num_products, numberOfProjects |-> info.num_projects]

\* caclulate_metrics on the tree: the document returned (its entries keep
\* the key of their accumulator), or the exception raised.
caclulate_metrics(t) ==
    LET theme_infos == Infos(t, Branch(t, ThemesId))
        variable_infos == Infos(t, Branch(t, VariablesId))
        eo_mission_infos == Infos(t, Branch(t, EoMissionsId))
        project_collections == Branch(t, ProjectsId)
        product_collections == Branch(t, ProductsId)
        a1 == CountForThemesOfAll(
                  [infos |-> theme_infos, err |-> ""],
                  [i \in 1..Len(project_collections) |->
                      get_theme_names(t[project_collections[i]])],
                  "num_projects")
        a2 == MetricsProducts(
                  [themes |-> a1.infos, variables |-> variable_infos,
                   missions |-> eo_mission_infos, years |-> {}, err |-> a1.err],
                  t, product_collections)
        a3 == CountForThemesOfAll(
                  [infos |-> a2.themes, err |-> a2.err],
                  [i \in 1..Len(a2.variables) |-> a2.variables[i].themes],
                  "num_variables")
    IN  IF a3.err # ""
        THEN [status |-> "raised", err |-> a3.err]
        ELSE [status |-> "done",
              summary |-> [years |-> SortedYears(a2.years),
                           numberOfProducts |-> Len(product_collections),
                           numberOfProjects |-> Len(project_collections),
                           numberOfVariables |-> Len(variable_infos),
                           numberOfThemes |-> Len(theme_infos),
                           numberOfMissions |-> Len(eo_mission_infos)],
              themes |-> [i \in 1..Len(a3.infos) |-> ThemeEntry(a3.infos[i])],
              variables |-> [i \in 1..Len(a2.variables) |-> VariableEntry(a2.variables[i])],
              missions |-> [i \in 1..Len(a2.missions) |-> MissionEntry(a2.missions[i])]]

(* The inputs of convert_csvs. *)

MaxProducts == 2

BuildProductPool ==
    { Product(<<"a">>, ProjA, None, <<Water>>, <<SoilMoisture>>, <<SentinelOne>>,
              <<201906>>, <<202101>>, None),
      Product(<<"b">>, ProjB, CollX, <<Water>>, <<Swe>>, <<Smos>>,
              <<201001>>, <<201212>>, <<"A">>),
      Product(<<"c">>, ProjA, CollX, <<Water>>, <<>>, <<>>,
              <<201501>>, <<201812>>, <<"B">>),
      Product(<<"d">>, ProjA, None, <<Ice>>, <<>>, <<>>, <<201906>>, None, None),
      Product(<<"e">>, ProjMissing, None, <<>>, <<>>, <<>>, None, None, None),
      Product(<<"f">>, ProjB, None, <<Water, Snow>>, <<Swe>>, <<Smos>>,
              None, <<202012>>, None),
      Product(<<"g">>, ProjB, CollX, <<Water, Snow>>, <<Swe>>, <<>>,
              <<201101>>, <<201312>>, None) }

BuildInputs ==
    [themes : {<<Theme(Water), Theme(Snow)>>},
     variables : {<<>>, <<Variable(SoilMoisture, <<Water>>), Variable(Swe, <<Snow>>)>>},
     eo_missions : {<<EOMission(SentinelOne), EOMission(Smos)>>},
     projects : {<<Project(ProjB), Project(ProjA)>>},
     processes : {<<>>, <<Process(<<"t", "o", "o", "l">>, ProjA)>>,
                  <<Process(<<"t", "o", "o", "l">>, ProjMissing)>>,
                  <<Process(<<"t", "o", "o", "l">>, ProjMissing),
                    Process(<<"t", "o", "o", "l">>, ProjA)>>},
     products : SeqsUpTo(BuildProductPool, MaxProducts)]
    \cup
    [themes : {<<Theme(Water), Theme(Snow)>>},
     variables : {<<>>, <<Variable(SoilMoisture, <<Water>>), Variable(Swe, <<Snow>>)>>},
     eo_missions : {<<EOMission(SentinelOne), EOMission(Smos)>>},
     projects : {<<Project(ProjB), ProjectWithThemes(ProjA, <<Water, Snow>>)>>},
     processes : {<<>>},
     products : SeqsUpTo(BuildProductPool, MaxProducts)]

Init ==
    /\ inp \in BuildInputs
    /\ pc = "start"
    /\ tree = <<>>
    /\ err = ""
    /\ linkRuns = 0
    /\ linkMode = ""
    /\ metrics = NoMetrics
    /\ ValidateIdle
    /\ SegIdle
    /\ TsIdle

\* convert_csvs, lines 64-127: the records are loaded, the segmentation
\* parents computed (an exception of get_product_segmentation ends
\* convert_csvs) and the first-level catalogs attached to the root.
ConvertSkeleton ==
    /\ pc = "start"
    /\ LET seg == get_product_segmentation(inp.products)
       IN  IF seg.err # ""
           THEN /\ pc' = "failed"
                /\ err' = seg.err
                /\ tree' = tree
           ELSE /\ pc' = "skeleton"
                /\ err' = err
                /\ tree' = Skeleton
    /\ UNCHANGED <<inp, linkRuns, linkMode, metrics, validateVars, segVars, tsVars>>

\* convert_csvs, lines 129-171.
ConvertPopulate ==
    /\ pc = "skeleton"
    /\ tree' = Populated(tree, inp, get_product_segmentation(inp.products).list)
    /\ pc' = "populated"
    /\ UNCHANGED <<inp, err, linkRuns, linkMode, metrics, validateVars, segVars, tsVars>>

\* convert_csvs, lines 173-185: the products are placed and the catalog saved.
ConvertLinkSubProducts ==
    /\ pc = "populated"
    /\ tree' = link_sub_product(tree, get_child(tree, RootOid, ProductsId), inp.products)
    /\ pc' = "converted"
    /\ UNCHANGED <<inp, err, linkRuns, linkMode, metrics, validateVars, segVars, tsVars>>

\* A run of link_collections on the tree; an exception ends the pipeline.
RunLink(asList) ==
    /\ pc \in {"converted", "linked"}
    /\ linkRuns < MaxLinkRuns
    /\ LET r == link_collections(tree, asList)
       IN  /\ tree' = r.t
           /\ err' = r.err
           /\ pc' = IF r.err = "" THEN "linked" ELSE "failed"
           /\ linkRuns' = IF r.err = "" THEN linkRuns + 1 ELSE linkRuns
    /\ linkMode' = IF asList THEN "lists" ELSE "generators"
    /\ UNCHANGED <<inp, metrics, validateVars, segVars, tsVars>>

\* build_dist lines 484-491: link_collections on the get_children() generators.
BuildDistLink == RunLink(FALSE)

\* link_collections called with lists of the same containers.
LinkCollectionsLists == RunLink(TRUE)

\* build_dist lines 493-507: the keywords are applied and the catalog saved.
BuildDistSave ==
    /\ pc = "linked"
    /\ tree' = ApplyKeywords(tree)
    /\ pc' = "built"
    /\ UNCHANGED <<inp, err, linkRuns, linkMode, metrics, validateVars, segVars, tsVars>>

\* build_metrics: caclulate_metrics on the catalog read from a directory
\* that convert_csvs or build_dist saved.
CalculateMetrics ==
    /\ pc \in {"converted", "built"}
    /\ metrics.status = "none"
    /\ metrics' = caclulate_metrics(tree)
    /\ UNCHANGED <<inp, pc, tree, err, linkRuns, linkMode, validateVars, segVars, tsVars>>

Next ==
    \/ ConvertSkeleton
    \/ ConvertPopulate
    \/ ConvertLinkSubProducts
    \/ BuildDistLink
    \/ LinkCollectionsLists
    \/ BuildDistSave
    \/ CalculateMetrics

Spec == Init /\ [][Next]_vars

---------------------------------------------------------------------------
(* Claims about validate_csvs.                                             *)

InputThemeSet == {Strip(csvs.themes[i]) : i \in 1..Len(csvs.themes)}

\* The rows of a products or benchmarks table whose references all resolve
\* and that have a collection.
RowsConsistent(rows) ==
    \A i \in 1..Len(rows) :
        /\ rows[i].Project \in {Strip(csvs.projects[j]) : j \in 1..Len(csvs.projects)}
        /\ rows[i].Collection # <<>>
        /\ Elems(get_themes(rows[i])) \subseteq InputThemeSet
        /\ Elems(parse_list(rows[i].Variables, ";"))
               \subseteq {Strip(csvs.variables[j].name) : j \in 1..Len(csvs.variables)}
        /\ Elems(parse_list(rows[i].EO_Missions, ";"))
               \subseteq {Strip(csvs.missions[j]) : j \in 1..Len(csvs.missions)}

FullyConsistent ==
    /\ csvs.cols = MetadataColumns
    /\ \A j \in 1..Len(csvs.variables) :
           Elems(parse_list(csvs.variables[j].themes, ";")) \subseteq InputThemeSet
    /\ RowsConsistent(csvs.products)
    /\ RowsConsistent(csvs.benchmarks)

EveryUnknownThemeReported(rows, element) ==
    \A i \in 1..Len(rows) :
        \A t \in Elems(get_themes(rows[i])) \ InputThemeSet :
            Count(issues, Issue("theme", element, Strip(rows[i].name), t)) = 1

\* C1: when validate_csvs returns, every product or benchmark row, at any
\* position of its table, whose theme is not in the theme set has exactly
\* one issue naming that theme and that row, and a fully consistent dataset
\* has an empty issue list.
C1_ReferenceIntegrity ==
    (vpc = "done" /\ verr = "") =>
        /\ EveryUnknownThemeReported(csvs.products, "Product")
        /\ EveryUnknownThemeReported(csvs.benchmarks, "Benchmark")
        /\ (FullyConsistent => issues = <<>>)

\* C2: validate_csvs never raises, whatever the rows of well-formed tables
\* are, a products or benchmarks table with no data row included.
C2_ValidationNeverRaises ==
    (vpc = "done" /\ csvs.cols = MetadataColumns) => verr = ""

---------------------------------------------------------------------------
(* Claims about get_product_segmentation.                                  *)

SegMembers(c) == SelectSeq(segIn, LAMBDA p : p.collection = c)

SegTitles == {segOut[i].title : i \in 1..Len(segOut)}

MinOf(S) == CHOOSE x \in S : \A y \in S : x <= y
MaxOf(S) == CHOOSE x \in S : \A y \in S : x >= y

AllDated(m) == \A j \in 1..Len(m) : m[j].start # None /\ m[j].end # None

\* C5: when get_product_segmentation returns, every group of products
\* sharing a collection value, all with start and end set, has a
\* ProductSegmentation whose start is the least start of the members and
\* whose end is the greatest end of the members.
C5_UnionCorrectness ==
    (spc = "done" /\ serr = "") =>
        \A c \in {segIn[k].collection : k \in 1..Len(segIn)} \ {None} :
            LET m == SegMembers(c)
            IN  AllDated(m) =>
                    \E i \in 1..Len(segOut) :
                        /\ segOut[i].title = c
                        /\ segOut[i].start = <<MinOf({m[j].start[1] : j \in 1..Len(m)})>>
                        /\ segOut[i].end = <<MaxOf({m[j].end[1] : j \in 1..Len(m)})>>

\* Witness of C5: a returned segmentation of three dated members with the
\* years [2010,2012], [2015,2018], [2011,2013] in this order, spanning
\* 2010 to 2018.
C5_Witness ==
    /\ spc = "done" /\ serr = ""
    /\ Len(segIn) = 3
    /\ AllDated(segIn)
    /\ [k \in 1..3 |-> <<segIn[k].start[1] \div 100, segIn[k].end[1] \div 100>>]
           = << <<2010, 2012>>, <<2015, 2018>>, <<2011, 2013>> >>
    /\ \E i \in 1..Len(segOut) :
           /\ Len(SegMembers(segOut[i].title)) = 3
           /\ segOut[i].start[1] \div 100 = 2010
           /\ segOut[i].end[1] \div 100 = 2018

\* C6 as claimed: a ProductSegmentation is returned for a collection value
\* if and only if two or more input products share that value.
C6_SegmentationIffShared ==
    (spc = "done" /\ serr = "") =>
        \A c \in {CollX, CollY} :
            (c \in SegTitles) <=> (Len(SegMembers(c)) >= 2)

\* C6 as amended: when get_product_segmentation returns, its result holds a
\* ProductSegmentation for a collection value if and only if one or more
\* input products have that value and the value is non-empty; a value used
\* by a single product has one too.
C6_SegmentationIffPresent ==
    (spc = "done" /\ serr = "") =>
        \A c \in {CollX, CollY, None} :
            (c \in SegTitles) <=> (c # None /\ Len(SegMembers(c)) >= 1)

\* Witness of C6: a returned segmentation whose collection value is used by
\* exactly one input product, beside a product with no collection.
C6_Witness ==
    /\ spc = "done" /\ serr = ""
    /\ \E c \in SegTitles : Len(SegMembers(c)) = 1
    /\ Len(SegMembers(None)) >= 1

---------------------------------------------------------------------------
(* set_update_timestamps (build.py), as build_dist calls it: with no       *)
(* stac_io, so that the path of a catalog or item is its href.  A stored   *)
(* catalog is [local, mtime, children, items, updated]: whether the scheme *)
(* of its href is "" or "file", the modification time of its file, its     *)
(* child links, its items [local, mtime, updated] and its `updated` field  *)
(* (None when not set).  A time is a number, a date-time <<time>>.         *)

Later(a, b) == IF a >= b THEN a ELSE b

\* Mutant of TsItems: the time of an item does not enter the maximum.
RECURSIVE MutTsItemsNoMax(_, _, _, _)
MutTsItemsNoMax(st, i, k, updated) ==
    IF k > Len(st.cat[i].items) THEN [st |-> st, updated |-> updated]
    ELSE IF ~st.cat[i].items[k].local THEN MutTsItemsNoMax(st, i, k + 1, updated)
    ELSE MutTsItemsNoMax(
             [cat |-> [st.cat EXCEPT ![i].items[k].updated = <<st.cat[i].items[k].mtime>>],
              lookups |-> st.lookups \cup {<<"item", i, k>>}],
             i, k + 1, updated)

\* Lines 307-318: the items of catalog i from the k-th on.
RECURSIVE TsItems(_, _, _, _)
TsItems(st, i, k, updated) ==
    IF k > Len(st.cat[i].items) THEN [st |-> st, updated |-> updated]
    ELSE IF ~st.cat[i].items[k].local THEN TsItems(st, i, k + 1, updated)
    ELSE TsItems(
             [cat |-> [st.cat EXCEPT ![i].items[k].updated = <<st.cat[i].items[k].mtime>>],
              lookups |-> st.lookups \cup {<<"item", i, k>>}],
             i, k + 1, Later(updated, st.cat[i].items[k].mtime))

RECURSIVE set_update_timestamps(_, _)
RECURSIVE TsChildren(_, _, _)

\* Lines 298-305: the child links of a catalog; only the local ones are
\* followed.
TsChildren(st, kids, updated) ==
    IF kids = <<>> THEN [st |-> st, updated |-> updated]
    ELSE IF ~st.cat[Head(kids)].local THEN TsChildren(st, Tail(kids), updated)
    ELSE LET r == set_update_timestamps(st, Head(kids))
         IN  TsChildren(r.st, Tail(kids),
                        IF r.ret # None THEN Later(updated, r.ret[1]) ELSE updated)

\* set_update_timestamps(catalog i, None) in the state st = [cat, lookups]:
\* the state left and the value returned.
set_update_timestamps(st, i) ==
    IF ~st.cat[i].local THEN [st |-> st, ret |-> None]
    ELSE LET s0 == [st EXCEPT !.lookups = @ \cup {<<"catalog", i>>}]
             r1 == TsChildren(s0, st.cat[i].children, st.cat[i].mtime)
             r2 == TsItems(r1.st, i, 1, r1.updated)
         IN  [st |-> [r2.st EXCEPT !.cat[i].updated = <<r2.updated>>],
              ret |-> <<r2.updated>>]

(* The stored catalogs: a root with two children, the first with a child   *)
(* of its own and one item, the second with one item.                      *)

MaxTime == 2

StoredItem == [local : BOOLEAN, mtime : 1..MaxTime, updated : {None}]

StoredCatalogs ==
    {<<r, a, b, c>> :
        r \in [local : BOOLEAN, mtime : 1..MaxTime, children : {<<2, 3>>},
               items : {<<>>}, updated : {None}],
        a \in [local : BOOLEAN, mtime : 1..MaxTime, children : {<<4>>},
               items : {<<it>> : it \in StoredItem}, updated : {None}],
        b \in [local : BOOLEAN, mtime : {1}, children : {<<>>},
               items : {<<it>> : it \in [local : {TRUE}, mtime : 1..MaxTime,
                                         updated : {None}]},
               updated : {None}],
        c \in [local : BOOLEAN, mtime : 1..MaxTime, children : {<<>>},
               items : {<<>>}, updated : {None}]}

InitTs ==
    /\ stored \in StoredCatalogs
    /\ tpc = "start"
    /\ lookups = {}
    /\ tret = <<>>
    /\ ValidateIdle
    /\ SegIdle
    /\ BuildIdle

\* build_dist line 482: set_update_timestamps(root, None).
SetUpdateTimestamps ==
    /\ tpc = "start"
    /\ LET r == set_update_timestamps([cat |-> stored, lookups |-> {}], 1)
       IN  /\ stored' = r.st.cat
           /\ lookups' = r.st.lookups
           /\ tret' = r.ret
    /\ tpc' = "done"
    /\ UNCHANGED <<validateVars, segVars, buildVars>>

NextTs == SetUpdateTimestamps

SpecTs == InitTs /\ [][NextTs]_vars

\* The regions of some members that are not empty, each at the place of
\* its first member.
FirstSeenRegions(m) ==
    LET at == SelectSeq([j \in 1..Len(m) |-> j],
                        LAMBDA j : /\ m[j].region # None
                                   /\ \A k \in 1..(j - 1) : m[k].region # m[j].region)
    IN  [n \in 1..Len(at) |-> m[at[n]].region]

\* Texts one after the other, a comma and a space between two of them.
RECURSIVE CommaSpaced(_)
CommaSpaced(texts) ==
    IF texts = <<>> THEN <<>>
    ELSE Head(texts) \o (IF Tail(texts) = <<>> THEN <<>> ELSE <<",", " ">>)
             \o CommaSpaced(Tail(texts))

\* C11: when get_product_segmentation returns, the region of the
\* ProductSegmentation of every collection group is the non-empty regions
\* of its members, each once and in the order of first appearance, joined
\* with a comma and a space.
C11_RegionJoined ==
    (spc = "done" /\ serr = "") =>
        \A c \in {segIn[k].collection : k \in 1..Len(segIn)} \ {None} :
            \E i \in 1..Len(segOut) :
                /\ segOut[i].title = c
                /\ segOut[i].region = CommaSpaced(FirstSeenRegions(SegMembers(c)))

\* Witness of C11: three members with the regions A, B, A give "A, B".
C11_Witness ==
    /\ spc = "done" /\ serr = ""
    /\ [k \in 1..Len(segIn) |-> segIn[k].region] = << <<"A">>, <<"B">>, <<"A">> >>
    /\ \E i \in 1..Len(segOut) :
           /\ Len(SegMembers(segOut[i].title)) = 3
           /\ segOut[i].region = <<"A", ",", " ", "B">>

---------------------------------------------------------------------------
(* Claims about convert_csvs, link_collections and caclulate_metrics.      *)

\* The containers of the entities: the children of the themes, variables,
\* eo-missions and projects branches.
EntityContainers ==
    Elems(Branch(tree, ThemesId)) \cup Elems(Branch(tree, VariablesId))
        \cup Elems(Branch(tree, EoMissionsId)) \cup Elems(Branch(tree, ProjectsId))

\* The project of every process and of every child of `products` has a
\* container.
OwningProjectsResolve ==
    \A x \in Elems(Branch(tree, ProcessesId)) \cup Elems(Branch(tree, ProductsId)) :
        \E c \in Elems(Branch(tree, ProjectsId)) : tree[c].id = slugify(tree[x].project)

\* C3: a product that references a theme, variable or eo-mission with no
\* container does not make the build crash: link_collections raises a
\* lookup error only for an owning project that has no container, and
\* caclulate_metrics does not raise.
C3_UnresolvedReferenceNoCrash ==
    /\ (err = "KeyError" => ~OwningProjectsResolve)
    /\ metrics.status # "raised"

NoTwoAlike(ids) ==
    \A i, j \in 1..Len(ids) : i # j => ids[i] # ids[j]

\* C4: once convert_csvs has assembled the tree from distinct records, no
\* two children of a first-level catalog have the same identifier.
C4_SiblingIdsUnique ==
    (pc = "converted"
        /\ NoTwoAlike([i \in 1..Len(inp.products) |-> inp.products[i].id]))
    => \A b \in 1..Len(FirstLevelOrder) :
           LET kids == Branch(tree, FirstLevelOrder[b])
           IN  NoTwoAlike([i \in 1..Len(kids) |-> tree[kids[i]].id])

\* C7 as claimed: a further run of link_collections on the same tree leaves
\* the related links of every container as they were.
C7_RelinkIdempotent ==
    [][(linkRuns >= 1 /\ linkRuns' = linkRuns + 1)
          => \A i \in 1..Len(tree) : tree'[i].related = tree[i].related]_vars

\* C7 as amended: a further completed run of link_collections on the same
\* tree adds every related link once more: each container is related to the
\* same containers as before, and a link present n times after n runs is
\* present n + 1 times after the next.
C7_RelinkRepeatsEdges ==
    [][(linkRuns >= 1 /\ linkRuns' = linkRuns + 1)
          => /\ Len(tree') = Len(tree)
             /\ \A i \in 1..Len(tree) :
                    /\ Elems(tree'[i].related) = Elems(tree[i].related)
                    /\ \A x \in Elems(tree[i].related) :
                           Count(tree'[i].related, x) * linkRuns
                               = Count(tree[i].related, x) * (linkRuns + 1)]_vars

\* Witness of C7: after two completed runs a product holds a related link
\* twice.
C7_Witness ==
    /\ linkRuns = 2 /\ err = ""
    /\ \E p \in Elems(Branch(tree, ProductsId)) :
           \E x \in Elems(tree[p].related) : Count(tree[p].related, x) = 2

\* The containers a child of `products` refers to.
ReferencedContainers(p) ==
    {c \in Elems(Branch(tree, ProjectsId)) : tree[c].id = slugify(tree[p].project)}
    \cup {c \in Elems(Branch(tree, ThemesId)) :
             \E n \in Elems(tree[p].themes) : tree[c].id = get_theme_id(n)}
    \cup {c \in Elems(Branch(tree, VariablesId)) :
             \E n \in Elems(tree[p].variables) : tree[c].id = get_variable_id(n)}
    \cup {c \in Elems(Branch(tree, EoMissionsId)) :
             \E n \in Elems(tree[p].missions) : tree[c].id = get_eo_mission_id(n)}

\* C8: after link_collections, every child of `products` is itself, the
\* very same object, a child of a container of each project, theme, variable
\* and eo-mission it refers to, and no other object is attached there; the keywords that build_dist applies to it
\* through `products` are therefore those seen from every branch.
C8_MultiParentSameObject ==
    (pc \in {"linked", "built"}) =>
        /\ \A p \in Elems(Branch(tree, ProductsId)) :
               \A c \in ReferencedContainers(p) :
                   \E d \in EntityContainers :
                       /\ tree[d].id = tree[c].id /\ tree[d].parent = tree[c].parent
                       /\ p \in Elems(tree[d].children)
        /\ \A c \in EntityContainers :
               \A x \in Elems(tree[c].children) :
                   /\ x \in Elems(Branch(tree, ProductsId))
                   /\ pc = "built" => tree[x].keywords

\* Witness of C8: a saved build in which one product is a child of a theme
\* container and of a variable container.
C8_Witness ==
    /\ pc = "built"
    /\ \E p \in Elems(Branch(tree, ProductsId)) :
           /\ \E c \in Elems(Branch(tree, ThemesId)) : p \in Elems(tree[c].children)
           /\ \E c \in Elems(Branch(tree, VariablesId)) : p \in Elems(tree[c].children)
           /\ tree[p].keywords

\* The years a child of `products` spans: every calendar year from that of
\* its start to that of its end, none when one of the two is missing.
SpannedYears(node) ==
    IF node.start = None \/ node.end = None THEN {}
    ELSE {y \in 1900..2100 : Year(node.start) <= y /\ y <= Year(node.end)}

\* What the claim asks of the entries of one listing: an entry holds the
\* years spanned by the children of `products` that refer to it, and no
\* other year, and counts each of them.
YearsCovered(entries, refsOf) ==
    \A k \in 1..Len(entries) :
        LET e == entries[k]
            users == {p \in Elems(Branch(tree, ProductsId)) : e.key \in refsOf[p]}
        IN  /\ Elems(e.years) = UNION {SpannedYears(tree[p]) : p \in users}
            /\ e.numberOfProducts >= Cardinality(users)

\* The identities a node refers to: a theme and a variable by the slug of
\* the name, an eo-mission by the name.
ThemeRefs == [p \in 1..Len(tree) |-> {slugify(n) : n \in Elems(tree[p].themes)}]
VariableRefs == [p \in 1..Len(tree) |-> {slugify(n) : n \in Elems(tree[p].variables)}]
MissionRefs == [p \in 1..Len(tree) |-> Elems(tree[p].missions)]

\* C9: in the metrics, the years of every theme, variable and eo-mission are
\* exactly the years spanned by the children of `products` that refer to it,
\* a child with a start and an end spanning every year from the one to the
\* other and a child with one of them missing spanning none; the global
\* years are those of all children; and every child is counted, dated or
\* not, in the product counters.
C9_YearCoverage ==
    metrics.status = "done" =>
        /\ YearsCovered(metrics.themes, ThemeRefs)
        /\ YearsCovered(metrics.variables, VariableRefs)
        /\ YearsCovered(metrics.missions, MissionRefs)
        /\ Elems(metrics.summary.years)
               = UNION {SpannedYears(tree[p]) : p \in Elems(Branch(tree, ProductsId))}
        /\ metrics.summary.numberOfProducts = Len(Branch(tree, ProductsId))

\* Witness of C9: the metrics of a tree with a child of `products` that has
\* a start in 2019 and an end in 2021 and names a theme, a variable and an
\* eo-mission, each listed with the years 2019, 2020 and 2021, and with a
\* child that has no start, counted by a theme that holds no year of it.
C9_Witness ==
    /\ metrics.status = "done"
    /\ \E p, q \in Elems(Branch(tree, ProductsId)) :
           /\ tree[p].start = <<201906>> /\ tree[p].end = <<202101>>
           /\ \E k \in 1..Len(metrics.themes) :
                  /\ metrics.themes[k].name \in Elems(tree[p].themes)
                  /\ metrics.themes[k].years = <<2019, 2020, 2021>>
                  /\ metrics.themes[k].numberOfProducts = 2
           /\ \E k \in 1..Len(metrics.variables) :
                  /\ metrics.variables[k].name \in Elems(tree[p].variables)
                  /\ metrics.variables[k].years = <<2019, 2020, 2021>>
           /\ \E k \in 1..Len(metrics.missions) :
                  /\ metrics.missions[k].name \in Elems(tree[p].missions)
                  /\ metrics.missions[k].years = <<2019, 2020, 2021>>
           /\ tree[q].start = None /\ tree[q].end # None
    /\ metrics.summary.years = <<2019, 2020, 2021>>

ThemeKeysOnce ==
    /\ NoTwoAlike([k \in 1..Len(metrics.themes) |-> metrics.themes[k].key])
    /\ {metrics.themes[k].key : k \in 1..Len(metrics.themes)}
           = {tree[c].id : c \in Elems(Branch(tree, ThemesId))}

\* C10 as claimed: every theme is listed once, and its numberOfProducts is
\* the number of products that refer to it, whether or not products share a
\* collection.
C10_ThemeCountsEveryProduct ==
    (metrics.status = "done"
        /\ NoTwoAlike([i \in 1..Len(inp.products) |-> inp.products[i].id])) =>
        /\ ThemeKeysOnce
        /\ \A k \in 1..Len(metrics.themes) :
               metrics.themes[k].numberOfProducts
                   = Cardinality({i \in 1..Len(inp.products) :
                         \E n \in Elems(inp.products[i].themes) :
                             get_theme_id(n) = metrics.themes[k].key})

\* How often the theme of a key stands in the theme lists of some nodes.
RECURSIVE ThemeOccurrences(_, _)
ThemeOccurrences(oids, key) ==
    IF oids = <<>> THEN 0
    ELSE LET names == tree[Head(oids)].themes
         IN  Count([i \in 1..Len(names) |-> get_theme_id(names[i])], key)
                 + ThemeOccurrences(Tail(oids), key)

\* C10 as amended: every theme is listed once, and its numberOfProducts is
\* incremented once for each place it takes in the theme list of a child of
\* `products`; products that share a collection are nested under one
\* segmentation child and count through it alone.
C10_ThemeCountsFlatChildren ==
    metrics.status = "done" =>
        /\ ThemeKeysOnce
        /\ \A k \in 1..Len(metrics.themes) :
               metrics.themes[k].numberOfProducts
                   = ThemeOccurrences(Branch(tree, ProductsId), metrics.themes[k].key)

\* Witness of C10: two children of `products` refer to one theme, which is
\* listed with numberOfProducts 2.
C10_Witness ==
    /\ metrics.status = "done"
    /\ Len(Branch(tree, ProductsId)) = 2
    /\ \E k \in 1..Len(metrics.themes) : metrics.themes[k].numberOfProducts = 2

\* The project containers a node's declared project resolves to.
OwningProjects(x) ==
    {c \in Elems(Branch(tree, ProjectsId)) : tree[c].id = slugify(tree[x].project)}

\* C12: a run of link_collections that completes gives every process one
\* more related link, to a project whose key is the slug of the project the
\* process declares; a run on a tree with a process whose project has no
\* container fails, with the lookup error whenever the loop over the
\* processes is reached, and links no product.
C12_ProcessLinking ==
    [][/\ (linkRuns' = linkRuns + 1) =>
              \A x \in Elems(Branch(tree, ProcessesId)) :
                  \E c \in OwningProjects(x) :
                      tree'[x].related = Append(tree[x].related, c)
       /\ (/\ pc = "converted" /\ pc' # pc
           /\ \E x \in Elems(Branch(tree, ProcessesId)) : OwningProjects(x) = {}) =>
              /\ pc' = "failed"
              /\ \/ err' = "KeyError"
                 \/ err' = "AttributeError" /\ linkMode' = "lists" /\ inp.variables # <<>>
              /\ \A x \in Elems(Branch(tree, ProcessesId)) :
                     OwningProjects(x) = {} => tree'[x].related = <<>>
              /\ \A p \in Elems(Branch(tree, ProductsId)) :
                     tree'[p].related = tree[p].related]_vars

\* Witness of C12: link_collections has raised the lookup error on the
\* second of two processes, the first holding its one link to its project.
C12_Witness ==
    /\ pc = "failed" /\ err = "KeyError" /\ linkMode = "generators"
    /\ Len(Branch(tree, ProductsId)) >= 1
    /\ \E x, y \in Elems(Branch(tree, ProcessesId)) :
           /\ Len(tree[x].related) = 1
           /\ tree[x].related[1] \in OwningProjects(x)
           /\ OwningProjects(y) = {} /\ tree[y].related = <<>>

\* The theme containers a name of a theme list stands for, by the name or
\* by its slug.
ThemesNamed(n) ==
    {c \in Elems(Branch(tree, ThemesId)) : tree[c].id \in {n, get_theme_id(n)}}

\* Every step of the cross-linking has been applied to the tree: every
\* variable and every project is related to the themes of its list, every
\* process to its project, and every child of `products` to the containers
\* it refers to.
EveryLinkStepApplied ==
    /\ \A v \in Elems(Branch(tree, VariablesId)) \cup Elems(Branch(tree, ProjectsId)) :
           \A n \in Elems(get_theme_names(tree[v])) :
               \E c \in ThemesNamed(n) : c \in Elems(tree[v].related)
    /\ \A x \in Elems(Branch(tree, ProcessesId)) :
           \E c \in OwningProjects(x) : c \in Elems(tree[x].related)
    /\ \A p \in Elems(Branch(tree, ProductsId)) :
           \A c \in ReferencedContainers(p) :
               \E d \in EntityContainers :
                   /\ tree[d].id = tree[c].id /\ tree[d].parent = tree[c].parent
                   /\ d \in Elems(tree[p].related)

\* C13: build_dist saves the catalog only after a cross-linking that did
\* not raise, and the catalog it saves has every cross-link step applied.
C13_NoPartialSuccess ==
    pc = "built" => (err = "" /\ linkRuns >= 1 /\ EveryLinkStepApplied)

\* The part of C13 about the exception: once link_collections has raised,
\* the catalog is never saved.
C13_NoSaveAfterRaise ==
    [][pc = "failed" => pc' = "failed"]_vars

\* The stored catalogs set_update_timestamps is called on: the root, and
\* every catalog at the end of a chain of local child links from a local
\* root.
RECURSIVE CalledOn(_)
CalledOn(i) ==
    IF i = 1 THEN TRUE
    ELSE \E k \in 1..Len(stored) :
             /\ i \in Elems(stored[k].children)
             /\ stored[k].local /\ stored[i].local /\ CalledOn(k)

\* The times that enter the `updated` of a local catalog: that of its own
\* file, the `updated` of its local children and the times of its local
\* items.
TimesOf(i) ==
    {stored[i].mtime}
    \cup {stored[k].updated[1] : k \in {k \in Elems(stored[i].children) : stored[k].local}}
    \cup {stored[i].items[n].mtime :
             n \in {n \in 1..Len(stored[i].items) : stored[i].items[n].local}}

\* C14: after set_update_timestamps on the root, every local catalog it
\* was called on stores (and the call on the root returns) the latest of
\* the time of its file, the `updated` of its local children and the times
\* of its local items, hence no time earlier than a local child's; the
\* modification time of a catalog or item that is not local is never
\* asked, and a catalog that is not local gets no `updated` and returns
\* none.
C14_UpdatedIsLatest ==
    tpc = "done" =>
        /\ \A i \in 1..Len(stored) :
               IF CalledOn(i) /\ stored[i].local
               THEN /\ stored[i].updated = <<MaxOf(TimesOf(i))>>
                    /\ \A k \in Elems(stored[i].children) :
                           stored[k].local => stored[i].updated[1] >= stored[k].updated[1]
                    /\ \A n \in 1..Len(stored[i].items) :
                           stored[i].items[n].updated =
                               IF stored[i].items[n].local
                               THEN <<stored[i].items[n].mtime>> ELSE None
               ELSE stored[i].updated = None
        /\ tret = stored[1].updated
        /\ \A l \in lookups :
               IF l[1] = "catalog" THEN stored[l[2]].local
               ELSE stored[l[2]].local /\ stored[l[2]].items[l[3]].local

\* Witness of C14: the root, of time 1, gets the time 2 of the local item
\* of its first child, while the time 2 of that child's child, which is
\* not local, was not asked.
C14_Witness ==
    /\ tpc = "done"
    /\ stored[1].local /\ stored[1].mtime = 1
    /\ stored[2].local /\ stored[2].mtime = 1
    /\ stored[2].items[1].local /\ stored[2].items[1].mtime = 2
    /\ stored[3].items[1].mtime = 1
    /\ ~stored[4].local /\ stored[4].mtime = 2
    /\ tret = <<2>>
    /\ <<"catalog", 4>> \notin lookups

\* C15: after the cross-linking of build_dist, every project container is
\* related to a theme container of each theme of its theme list.
C15_ProjectThemeEdges ==
    (pc \in {"linked", "built"} /\ linkMode = "generators") =>
        \A p \in Elems(Branch(tree, ProjectsId)) :
            \A n \in Elems(get_theme_names(tree[p])) :
                \E c \in ThemesNamed(n) : c \in Elems(tree[p].related)

\* C16: link_collections does not raise in its loop over the variables,
\* and once it has completed every variable container is related to a
\* theme container of each theme it declares, and no theme container is
\* related to anything.
C16_VariableThemeEdges ==
    /\ err # "AttributeError"
    /\ pc \in {"linked", "built"} =>
           /\ \A v \in Elems(Branch(tree, VariablesId)) :
                  \A n \in Elems(get_theme_names(tree[v])) :
                      \E c \in ThemesNamed(n) : c \in Elems(tree[v].related)
           /\ \A c \in Elems(Branch(tree, ThemesId)) : tree[c].related = <<>>

\* Every product of the catalog: the segmentation parents, the products
\* attached under `products` and the products nested under a segmentation
\* parent.
AllProducts ==
    {x \in 1..Len(tree) : tree[x].kind \in {"product", "segmentation"}}

NestedProducts ==
    {x \in AllProducts : x \notin Elems(Branch(tree, ProductsId))}

\* C17: after convert_csvs and the cross-linking of build_dist, every
\* product of the catalog, nested or not, is a child of a container of its
\* own project and is related to it.
C17_NoProductOrphaned ==
    (pc \in {"linked", "built"} /\ linkMode = "generators") =>
        \A x \in AllProducts :
            \E c \in OwningProjects(x) :
                /\ c \in Elems(tree[x].related)
                /\ x \in Elems(tree[c].children)

\* The names a child of `products` refers to, in the order of the loops of
\* _links_all_products, each with the branch of its containers and the key
\* of its container.
ReferencesOf(p) ==
    <<[branch |-> ProjectsId, key |-> slugify(tree[p].project)]>>
    \o [k \in 1..Len(tree[p].themes) |->
            [branch |-> ThemesId, key |-> get_theme_id(tree[p].themes[k])]]
    \o [k \in 1..Len(tree[p].variables) |->
            [branch |-> VariablesId, key |-> get_variable_id(tree[p].variables[k])]]
    \o [k \in 1..Len(tree[p].missions) |->
            [branch |-> EoMissionsId, key |-> get_eo_mission_id(tree[p].missions[k])]]

\* C18: after one completed run of link_collections, a child of `products`
\* has exactly one related link per reference, in turn to a container of
\* its project, of each of its themes, of each of its variables and of
\* each of its eo-missions; and the containers that hold it as a child are
\* the `products` container and exactly these, each holding the product
\* itself once per reference to it.
C18_OneEdgeAndParentPerReference ==
    (linkRuns = 1 /\ pc \in {"linked", "built"}) =>
        \A p \in Elems(Branch(tree, ProductsId)) :
            LET refs == ReferencesOf(p)
                rel == tree[p].related
            IN  /\ Len(rel) = Len(refs)
                /\ \A k \in 1..Len(refs) :
                       /\ rel[k] \in Elems(Branch(tree, refs[k].branch))
                       /\ tree[rel[k]].id = refs[k].key
                /\ {c \in 1..Len(tree) : p \in Elems(tree[c].children)}
                       = {get_child(tree, RootOid, ProductsId)} \cup Elems(rel)
                /\ \A c \in Elems(rel) : Count(tree[c].children, p) = Count(rel, c)

\* Witness of C18: a product attached directly under `products`, with a
\* project, two themes, a variable and an eo-mission, holds five related
\* links after one run.
C18_Witness ==
    /\ linkRuns = 1 /\ pc \in {"linked", "built"}
    /\ \E p \in Elems(Branch(tree, ProductsId)) :
           /\ tree[p].kind = "product"
           /\ Len(tree[p].themes) = 2 /\ Len(tree[p].variables) = 1
           /\ Len(tree[p].missions) = 1
           /\ Len(tree[p].related) = 5
           /\ Cardinality({c \in 1..Len(tree) : p \in Elems(tree[c].children)}) = 6

\* No product passed has a list of themes, variables or eo-missions of
\* more than one entry.
ShortLists ==
    \A k \in 1..Len(segIn) :
        /\ Len(segIn[k].themes) <= 1 /\ Len(segIn[k].variables) <= 1
        /\ Len(segIn[k].eo_missions) <= 1

\* C19: get_product_segmentation does not raise because members of a group
\* have no start or no end, whether or not other members of the group have
\* them; the start of the ProductSegmentation is then the least of the
\* starts that are set.
C19_MissingDatesDoNotRaise ==
    (spc = "done" /\ ShortLists
        /\ NoTwoAlike([k \in 1..Len(segIn) |-> segIn[k].id])) =>
        /\ serr = ""
        /\ \A i \in 1..Len(segOut) :
               LET starts == {p.start[1] : p \in {q \in Elems(SegMembers(segOut[i].title)) :
                                                     q.start # None}}
               IN  starts # {} => segOut[i].start = <<MinOf(starts)>>

\* The lists of some members one after the other.
RECURSIVE Flattened(_)
Flattened(lists) ==
    IF lists = <<>> THEN <<>> ELSE Head(lists) \o Flattened(Tail(lists))

\* The entries of a list, each at the place of its first appearance.
FirstSeen(xs) ==
    LET at == SelectSeq([j \in 1..Len(xs) |-> j],
                        LAMBDA j : \A k \in 1..(j - 1) : xs[k] # xs[j])
    IN  [n \in 1..Len(at) |-> xs[at[n]]]

\* C20: for products that all have a start and an end,
\* get_product_segmentation returns, and the themes, variables and
\* eo_missions of the ProductSegmentation of every group are the entries of
\* the members' lists, whatever the length of a list, each once and in the
\* order of first appearance.
C20_ListsAreFlattenedUnions ==
    (spc = "done" /\ AllDated(segIn)
        /\ NoTwoAlike([k \in 1..Len(segIn) |-> segIn[k].id])) =>
        /\ serr = ""
        /\ \A i \in 1..Len(segOut) :
               LET m == SegMembers(segOut[i].title)
               IN  /\ segOut[i].themes
                          = FirstSeen(Flattened([j \in 1..Len(m) |-> m[j].themes]))
                   /\ segOut[i].variables
                          = FirstSeen(Flattened([j \in 1..Len(m) |-> m[j].variables]))
                   /\ segOut[i].eo_missions
                          = FirstSeen(Flattened([j \in 1..Len(m) |-> m[j].eo_missions]))

\* C21: when get_product_segmentation returns, the titles of the list it
\* returns are the non-empty collection values of the products passed, each
\* once, also a value of a single product, and in the order of first
\* appearance; a product with no collection gives none.
C21_OnePerCollectionInOrder ==
    (spc = "done" /\ serr = "") =>
        [i \in 1..Len(segOut) |-> segOut[i].title]
            = FirstSeen(SelectSeq([k \in 1..Len(segIn) |-> segIn[k].collection],
                                  LAMBDA c : c # None))

\* Witness of C21: products with the collections Y, none and X give the
\* segmentations Y and X, in this order.
C21_Witness ==
    /\ spc = "done" /\ serr = ""
    /\ [k \in 1..Len(segIn) |-> segIn[k].collection] = <<CollY, None, CollX>>
    /\ [i \in 1..Len(segOut) |-> segOut[i].title] = <<CollY, CollX>>

\* C22: when get_product_segmentation returns, the project of the
\* ProductSegmentation of a group of dated members is the project of the
\* first member, in the order of the products passed, whose end is the
\* greatest end of the group.
C22_ProjectOfFirstLatestMember ==
    (spc = "done" /\ serr = "") =>
        \A i \in 1..Len(segOut) :
            LET m == SegMembers(segOut[i].title)
            IN  AllDated(m) =>
                    \E j \in 1..Len(m) :
                        /\ \A k \in 1..Len(m) : m[k].end[1] <= m[j].end[1]
                        /\ \A k \in 1..(j - 1) : m[k].end[1] < m[j].end[1]
                        /\ segOut[i].project = m[j].project

\* The containers of the product records, in the order convert_csvs
\* constructed them.
PlacedProducts ==
    SelectSeq([n \in 1..Len(tree) |-> n], LAMBDA n : tree[n].kind = "product")

\* The container a record belongs under: the first child of `products`
\* whose title is the record's collection, `products` when there is none.
HomeOf(rec) ==
    LET products == get_child(tree, RootOid, ProductsId)
        named == SelectSeq(tree[products].children,
                           LAMBDA c : tree[c].title = rec.collection)
    IN  IF named # <<>> THEN named[1] ELSE products

\* C23: when convert_csvs has placed the products, nothing was raised and
\* every product record has one container, which is a child, once, of one
\* container only: of the child of `products` titled as the record's
\* collection when there is one, of `products` otherwise, and of `products`
\* when the record has no collection.
C23_ProductPlacement ==
    pc = "converted" =>
        /\ err = ""
        /\ Len(PlacedProducts) = Len(inp.products)
        /\ \A i \in 1..Len(PlacedProducts) :
               LET n == PlacedProducts[i]
                   rec == inp.products[i]
               IN  /\ tree[n].id = rec.id
                   /\ tree[n].parent = HomeOf(rec)
                   /\ \A c \in 1..Len(tree) :
                          Count(tree[c].children, n)
                              = IF c = HomeOf(rec) THEN 1 ELSE 0
                   /\ rec.collection = None
                          => HomeOf(rec) = get_child(tree, RootOid, ProductsId)
                   /\ rec.collection # None
                          => /\ tree[HomeOf(rec)].kind = "segmentation"
                             /\ tree[HomeOf(rec)].title = rec.collection
                             /\ tree[HomeOf(rec)].parent
                                    = get_child(tree, RootOid, ProductsId)

C23_Witness ==
    /\ pc = "converted"
    /\ Len(inp.products) = 2
    /\ inp.products[1].collection = CollX
    /\ inp.products[2].collection = None
    /\ tree[tree[PlacedProducts[1]].parent].kind = "segmentation"
    /\ tree[PlacedProducts[2]].parent = get_child(tree, RootOid, ProductsId)

\* The projects that own a product container referring to an eo-mission.
MissionProjects(key) ==
    {tree[p].project : p \in {x \in 1..Len(tree) : /\ tree[x].kind = "product"
                                                   /\ key \in MissionRefs[x]}}

\* C24: in the metrics, the numberOfProjects of every eo-mission is the
\* number of distinct projects that own a product referring to the mission.
C24_MissionProjectRollup ==
    metrics.status = "done" =>
        \A k \in 1..Len(metrics.missions) :
            metrics.missions[k].numberOfProjects
                = Cardinality(MissionProjects(metrics.missions[k].key))

\* C25: the numberOfProjects of the summary of the metrics of a catalog that
\* convert_csvs assembled is the number of distinct project records it was
\* given.
C25_ProjectTotal ==
    metrics.status = "done" =>
        metrics.summary.numberOfProjects
            = Cardinality({inp.projects[i].id : i \in 1..Len(inp.projects)})

\* The root of t has exactly the six sub-containers, in the order
\* projects, themes, variables, eo-missions, products, processes.
SixAttached(t) ==
    /\ t # <<>>
    /\ [i \in 1..Len(t[RootOid].children) |-> t[t[RootOid].children[i]].id]
           = <<ProjectsId, ThemesId, VariablesId, EoMissionsId, ProductsId,
               ProcessesId>>
    /\ \A i \in 1..Len(t[RootOid].children) :
           t[t[RootOid].children[i]].parent = RootOid

\* A step in which a container other than the root gets its first child.
EntityAdded ==
    \E c \in 2..Len(tree') :
        /\ tree'[c].children # <<>>
        /\ c > Len(tree) \/ tree[c].children = <<>>

\* C26: once convert_csvs has a tree, the children of its root are the six
\* sub-containers in the order projects, themes, variables, eo-missions,
\* products, processes, and a step that gives a container other than the
\* root its first child starts from a tree that has all six attached.
C26_SixAttachedInOrderFirst ==
    /\ [](tree # <<>> => SixAttached(tree))
    /\ [][EntityAdded => SixAttached(tree)]_vars

\* Witness of C26: the six sub-containers are attached in order and none of
\* them has a child yet.
C26_Witness ==
    /\ pc = "skeleton"
    /\ SixAttached(tree)
    /\ Len(tree) = 7
    /\ \A c \in 2..Len(tree) : tree[c].children = <<>>

=============================================================================
